---- MODULE Spec2Model ----
(***************************************************************************)
(* Model of the formatting core of src/transcribe.py: _format_simple, the  *)
(* word-level path of _format_diarized with its _find_speaker closure,     *)
(* _diarize_segment_level and _render_passages.                            *)
(*                                                                         *)
(* Times are integers (seconds).  The midpoint (start + end) / 2.0 is kept *)
(* doubled, so that every comparison the code makes on it is exact.        *)
(* A text is a sequence of one-character strings; a line of the document   *)
(* is a sequence of string fragments whose concatenation is the line, and  *)
(* the document "\n".join(lines) is kept as the sequence of its lines.     *)
(* The loops over segments and words are modelled one iteration per step;  *)
(* the unit an iteration consumes is drawn when the iteration runs.        *)
(***************************************************************************)
EXTENDS Integers, Sequences, FiniteSets, TLC

\* ------------------------------------------------------------------ bounds
MaxTick == 2     \* timestamps are 0, 2, ..., 2 * MaxTick seconds
MaxUnits == 3    \* segments (or words) of one transcript
MaxTurns == 2    \* turns of one diarization timeline

\* --------------------------------------------------------- program constants
PauseThreshold == 2   \* seg["start"] - last_end > 2.0
Inf == -1             \* float("inf"), the initial best_dist

Unknown == "Unknown"
NoSpeaker == "None"   \* cur_speaker = None
Speakers == {"A", "B"}

\* even seconds: gaps of exactly 2.0 and of more than 2.0 both occur
Times == { 2 * k : k \in 0 .. MaxTick }
RawTexts == { <<" ">>,
              <<" ", "a">>,
              <<"b", ".", " ", "c", "?", " ", "d", "!", " ">> }
Units == [start : Times, end : Times, text : RawTexts]
NoUnit == [start |-> 0, end |-> 0, text |-> <<>>]
Turns == { t \in [start : Times, end : Times, speaker : Speakers] : t.start <= t.end }

RECURSIVE SeqsUpTo(_, _)
SeqsUpTo(S, n) ==
  IF n = 0 THEN { <<>> }
  ELSE LET shorter == SeqsUpTo(S, n - 1)
       IN shorter \cup { Append(s, x) : s \in { q \in shorter : Len(q) = n - 1 }, x \in S }

Timelines == SeqsUpTo(Turns, MaxTurns)

Max(a, b) == IF a >= b THEN a ELSE b
Min(a, b) == IF a <= b THEN a ELSE b
Abs(a) == IF a >= 0 THEN a ELSE 0 - a

\* ------------------------------------------------------------ str methods
RECURSIVE LStrip(_)
LStrip(t) == IF t # <<>> /\ Head(t) = " " THEN LStrip(Tail(t)) ELSE t

RECURSIVE RStrip(_)
RStrip(t) == IF t # <<>> /\ t[Len(t)] = " " THEN RStrip(SubSeq(t, 1, Len(t) - 1)) ELSE t

\* str.strip()
Strip(t) == RStrip(LStrip(t))

\* " ".join(parts)
RECURSIVE Join(_)
Join(parts) ==
  IF parts = <<>> THEN <<>>
  ELSE IF Len(parts) = 1 THEN parts[1]
  ELSE parts[1] \o <<" ">> \o Join(Tail(parts))

\* sentence-terminal punctuation marks of a text
IsTerminal(c) == c \in {".", "?", "!"}
Terminals(text) == Cardinality({ k \in 1 .. Len(text) : IsTerminal(text[k]) })

Heading == << "# Transcript" >>
Blank == <<>>

\* ---------------------------------------------------------- _format_simple
\* faulty variant: the pause test is >= instead of >
format_simple_step_ge(st, seg) ==
  LET text == Strip(seg.text) IN
  IF text = <<>> THEN st
  ELSE LET brk == st.paragraph # <<>> /\ seg.start - st.last_end >= PauseThreshold
           lines1 == IF brk THEN st.lines \o << Join(st.paragraph), Blank >> ELSE st.lines
           para1 == IF brk THEN <<>> ELSE st.paragraph
       IN [lines |-> lines1, paragraph |-> Append(para1, text), last_end |-> seg.end]

\* faulty variant: a break is also forced once the buffer holds 5 sentence terminators
format_simple_step_cap(st, seg) ==
  LET text == Strip(seg.text) IN
  IF text = <<>> THEN st
  ELSE LET brk == /\ st.paragraph # <<>>
                  /\ \/ seg.start - st.last_end > PauseThreshold
                     \/ Terminals(Join(st.paragraph)) >= 5
           lines1 == IF brk THEN st.lines \o << Join(st.paragraph), Blank >> ELSE st.lines
           para1 == IF brk THEN <<>> ELSE st.paragraph
       IN [lines |-> lines1, paragraph |-> Append(para1, text), last_end |-> seg.end]

\* faulty variant: a segment with end < start is passed over
format_simple_step_checked(st, seg) ==
  LET text == Strip(seg.text) IN
  IF text = <<>> \/ seg.end < seg.start THEN st
  ELSE LET brk == st.paragraph # <<>> /\ seg.start - st.last_end > PauseThreshold
           lines1 == IF brk THEN st.lines \o << Join(st.paragraph), Blank >> ELSE st.lines
           para1 == IF brk THEN <<>> ELSE st.paragraph
       IN [lines |-> lines1, paragraph |-> Append(para1, text), last_end |-> seg.end]

\* One iteration of the loop over result["segments"]; st holds lines,
\* paragraph and last_end.
format_simple_step(st, seg) ==
  LET text == Strip(seg.text) IN
  IF text = <<>> THEN st
  ELSE LET brk == st.paragraph # <<>> /\ seg.start - st.last_end > PauseThreshold
           lines1 == IF brk THEN st.lines \o << Join(st.paragraph), Blank >> ELSE st.lines
           para1 == IF brk THEN <<>> ELSE st.paragraph
       IN [lines |-> lines1, paragraph |-> Append(para1, text), last_end |-> seg.end]

\* faulty variant: the flush does not test the paragraph
format_simple_flush_always(st) ==
  st.lines \o << Join(st.paragraph), Blank >>

\* The flush after the loop.
format_simple_flush(st) ==
  IF st.paragraph # <<>> THEN st.lines \o << Join(st.paragraph), Blank >> ELSE st.lines

\* ----------------------------------------------------------- _find_speaker
RECURSIVE find_speaker_loop(_, _, _, _, _, _)
find_speaker_loop(speaker_segments, k, w_start, w_end, best, best_overlap) ==
  IF k > Len(speaker_segments) THEN best
  ELSE LET ss == speaker_segments[k]
           overlap == Max(0, Min(w_end, ss.end) - Max(w_start, ss.start))
       IN IF overlap > best_overlap
          THEN find_speaker_loop(speaker_segments, k + 1, w_start, w_end, ss.speaker, overlap)
          ELSE find_speaker_loop(speaker_segments, k + 1, w_start, w_end, best, best_overlap)

\* faulty variant: the overlap test is >= instead of >
RECURSIVE find_speaker_loop_ge(_, _, _, _, _, _)
find_speaker_loop_ge(speaker_segments, k, w_start, w_end, best, best_overlap) ==
  IF k > Len(speaker_segments) THEN best
  ELSE LET ss == speaker_segments[k]
           overlap == Max(0, Min(w_end, ss.end) - Max(w_start, ss.start))
       IN IF overlap >= best_overlap
          THEN find_speaker_loop_ge(speaker_segments, k + 1, w_start, w_end, ss.speaker, overlap)
          ELSE find_speaker_loop_ge(speaker_segments, k + 1, w_start, w_end, best, best_overlap)

find_speaker_ge(speaker_segments, w_start, w_end) ==
  find_speaker_loop_ge(speaker_segments, 1, w_start, w_end, Unknown, 0)

find_speaker(speaker_segments, w_start, w_end) ==
  find_speaker_loop(speaker_segments, 1, w_start, w_end, Unknown, 0)

\* ------------------------------------------- _format_diarized, word level
\* faulty variant: every word starts a passage
group_word_nomerge(st, token, spk) ==
  [passages |-> IF st.cur_words # <<>>
                THEN Append(st.passages,
                            [speaker |-> st.cur_speaker, text |-> Join(st.cur_words)])
                ELSE st.passages,
   cur_speaker |-> spk,
   cur_words |-> << token >>]

\* One iteration of the grouping loop; st holds passages, cur_speaker and
\* cur_words.
group_word(st, token, spk) ==
  IF spk # st.cur_speaker
  THEN [passages |-> IF st.cur_words # <<>>
                     THEN Append(st.passages,
                                 [speaker |-> st.cur_speaker, text |-> Join(st.cur_words)])
                     ELSE st.passages,
        cur_speaker |-> spk,
        cur_words |-> << token >>]
  ELSE [st EXCEPT !.cur_words = Append(st.cur_words, token)]

\* The flush after the grouping loop.
group_flush(st) ==
  IF st.cur_words # <<>>
  THEN Append(st.passages, [speaker |-> st.cur_speaker, text |-> Join(st.cur_words)])
  ELSE st.passages

\* --------------------------------------------------- _diarize_segment_level
DistLess(dist, best_dist) == best_dist = Inf \/ dist < best_dist

\* The loop over speaker_segments for one segment; mid2 is twice the midpoint.
RECURSIVE midpoint_loop(_, _, _, _, _)
midpoint_loop(speaker_segments, k, mid2, best, best_dist) ==
  IF k > Len(speaker_segments) THEN best
  ELSE LET ss == speaker_segments[k] IN
       IF 2 * ss.start <= mid2 /\ mid2 <= 2 * ss.end THEN ss.speaker
       ELSE LET dist == Min(Abs(mid2 - 2 * ss.start), Abs(mid2 - 2 * ss.end))
            IN IF DistLess(dist, best_dist)
               THEN midpoint_loop(speaker_segments, k + 1, mid2, ss.speaker, dist)
               ELSE midpoint_loop(speaker_segments, k + 1, mid2, best, best_dist)

\* faulty variant: the scan goes on after a turn that contains the midpoint
RECURSIVE midpoint_loop_nobreak(_, _, _, _, _)
midpoint_loop_nobreak(speaker_segments, k, mid2, best, best_dist) ==
  IF k > Len(speaker_segments) THEN best
  ELSE LET ss == speaker_segments[k] IN
       IF 2 * ss.start <= mid2 /\ mid2 <= 2 * ss.end
       THEN midpoint_loop_nobreak(speaker_segments, k + 1, mid2, ss.speaker, best_dist)
       ELSE LET dist == Min(Abs(mid2 - 2 * ss.start), Abs(mid2 - 2 * ss.end))
            IN IF DistLess(dist, best_dist)
               THEN midpoint_loop_nobreak(speaker_segments, k + 1, mid2, ss.speaker, dist)
               ELSE midpoint_loop_nobreak(speaker_segments, k + 1, mid2, best, best_dist)

midpoint_speaker_nobreak(speaker_segments, seg) ==
  midpoint_loop_nobreak(speaker_segments, 1, seg.start + seg.end, Unknown, Inf)

midpoint_speaker(speaker_segments, seg) ==
  midpoint_loop(speaker_segments, 1, seg.start + seg.end, Unknown, Inf)

\* faulty variant: the merge assigns the text instead of appending it
merge_passage_assign(ps, best, text) ==
  IF ps # <<>> /\ ps[Len(ps)].speaker = best
  THEN [ps EXCEPT ![Len(ps)].text = text]
  ELSE Append(ps, [speaker |-> best, text |-> text])

\* Merge with the previous passage if same speaker.
merge_passage(ps, best, text) ==
  IF ps # <<>> /\ ps[Len(ps)].speaker = best
  THEN [ps EXCEPT ![Len(ps)].text = @ \o <<" ">> \o text]
  ELSE Append(ps, [speaker |-> best, text |-> text])

\* --------------------------------------------------------- _render_passages
\* faulty variant: the counter advances with every passage
RECURSIVE speaker_map_loop_each(_, _, _, _)
speaker_map_loop_each(ps, k, speaker_map, counter) ==
  IF k > Len(ps) THEN speaker_map
  ELSE LET raw == ps[k].speaker IN
       IF raw \notin DOMAIN speaker_map /\ raw # Unknown
       THEN speaker_map_loop_each(ps, k + 1, (raw :> counter) @@ speaker_map, counter + 1)
       ELSE speaker_map_loop_each(ps, k + 1, speaker_map, counter + 1)

\* The first loop: speaker_map as a function raw -> counter value.
RECURSIVE speaker_map_loop(_, _, _, _)
speaker_map_loop(ps, k, speaker_map, counter) ==
  IF k > Len(ps) THEN speaker_map
  ELSE LET raw == ps[k].speaker IN
       IF raw \notin DOMAIN speaker_map /\ raw # Unknown
       THEN speaker_map_loop(ps, k + 1, (raw :> counter) @@ speaker_map, counter + 1)
       ELSE speaker_map_loop(ps, k + 1, speaker_map, counter)

EmptyMap == [x \in {} |-> 0]

\* speaker_map.get(raw, raw), the value being f"Speaker {counter}"
Label(speaker_map, raw) ==
  IF raw \in DOMAIN speaker_map
  THEN << "Speaker ", ToString(speaker_map[raw]) >>
  ELSE << raw >>

RECURSIVE render_lines(_, _, _)
render_lines(ps, k, speaker_map) ==
  IF k > Len(ps) THEN <<>>
  ELSE << <<"**">> \o Label(speaker_map, ps[k].speaker) \o <<":** ">> \o ps[k].text, Blank >>
       \o render_lines(ps, k + 1, speaker_map)

\* faulty variant: passages that are all "Unknown" are rendered without a label
RECURSIVE render_bare(_, _)
render_bare(ps, k) ==
  IF k > Len(ps) THEN <<>>
  ELSE << ps[k].text, Blank >> \o render_bare(ps, k + 1)

render_passages_bare(ps) ==
  IF \A k \in 1 .. Len(ps) : ps[k].speaker = Unknown
  THEN << Heading, Blank >> \o render_bare(ps, 1)
  ELSE << Heading, Blank >> \o render_lines(ps, 1, speaker_map_loop(ps, 1, EmptyMap, 1))

render_passages(ps) ==
  << Heading, Blank >> \o render_lines(ps, 1, speaker_map_loop(ps, 1, EmptyMap, 1))

\* ------------------------------------------------------------------- state
VARIABLES mode,              \* "simple" | "word" | "segment": the formatter running
          pc,                \* "loop" | "done"
          speaker_segments,  \* the diarization timeline
          i,                 \* units consumed by the running loop
          cur,               \* the unit the last iteration consumed
          consumed,          \* raw texts of the units consumed, in order
          lines, paragraph, last_end,        \* _format_simple; lines also the result
          passages, cur_speaker, cur_words   \* the diarized paths

vars == << mode, pc, speaker_segments, i, cur, consumed, lines, paragraph, last_end,
           passages, cur_speaker, cur_words >>

\* words of the word-level path: stripped, non-empty tokens
RECURSIVE Tokens(_)
Tokens(texts) ==
  IF texts = <<>> THEN <<>>
  ELSE IF Strip(Head(texts)) = <<>> THEN Tokens(Tail(texts))
  ELSE << Strip(Head(texts)) >> \o Tokens(Tail(texts))

Init ==
  /\ mode \in {"simple", "word"}
  /\ pc = "loop"
  /\ speaker_segments \in (IF mode = "simple" THEN { <<>> } ELSE Timelines)
  /\ i = 0
  /\ cur = NoUnit
  /\ consumed = <<>>
  /\ lines = << Heading, Blank >>
  /\ paragraph = <<>>
  /\ last_end = 0
  /\ passages = <<>>
  /\ cur_speaker = NoSpeaker
  /\ cur_words = <<>>

Consume(u) ==
  /\ i' = i + 1
  /\ cur' = u
  /\ consumed' = Append(consumed, u.text)

\* _format_simple: one segment
SimpleStep ==
  /\ mode = "simple" /\ pc = "loop" /\ i < MaxUnits
  /\ \E seg \in Units :
       LET st == format_simple_step(
                   [lines |-> lines, paragraph |-> paragraph, last_end |-> last_end], seg)
       IN /\ Consume(seg)
          /\ lines' = st.lines
          /\ paragraph' = st.paragraph
          /\ last_end' = st.last_end
  /\ UNCHANGED << mode, pc, speaker_segments, passages, cur_speaker, cur_words >>

\* _format_simple: end of the segments
SimpleFinish ==
  /\ mode = "simple" /\ pc = "loop"
  /\ lines' = format_simple_flush(
                [lines |-> lines, paragraph |-> paragraph, last_end |-> last_end])
  /\ pc' = "done"
  /\ UNCHANGED << mode, speaker_segments, i, cur, consumed, paragraph, last_end,
                  passages, cur_speaker, cur_words >>

\* _format_diarized: one word, collected (lines 124-129) and grouped (150-158)
WordStep ==
  /\ mode = "word" /\ pc = "loop" /\ i < MaxUnits
  /\ \E w \in Units :
       LET token == Strip(w.text)
           st == group_word(
                   [passages |-> passages, cur_speaker |-> cur_speaker,
                    cur_words |-> cur_words],
                   token, find_speaker(speaker_segments, w.start, w.end))
       IN /\ Consume(w)
          /\ IF token # <<>>
             THEN /\ passages' = st.passages
                  /\ cur_speaker' = st.cur_speaker
                  /\ cur_words' = st.cur_words
             ELSE UNCHANGED << passages, cur_speaker, cur_words >>
  /\ UNCHANGED << mode, pc, speaker_segments, lines, paragraph, last_end >>

\* _format_diarized: words is not empty, flush and render
WordFinish ==
  /\ mode = "word" /\ pc = "loop" /\ Tokens(consumed) # <<>>
  /\ LET ps == group_flush([passages |-> passages, cur_speaker |-> cur_speaker,
                            cur_words |-> cur_words])
     IN /\ passages' = ps
        /\ lines' = render_passages(ps)
  /\ pc' = "done"
  /\ UNCHANGED << mode, speaker_segments, i, cur, consumed, paragraph, last_end,
                  cur_speaker, cur_words >>

\* _format_diarized: no word-level timestamps, assign whole segments
WordFallback ==
  /\ mode = "word" /\ pc = "loop" /\ Tokens(consumed) = <<>>
  /\ mode' = "segment"
  /\ i' = 0
  /\ cur' = NoUnit
  /\ consumed' = <<>>
  /\ UNCHANGED << pc, speaker_segments, lines, paragraph, last_end,
                  passages, cur_speaker, cur_words >>

\* _diarize_segment_level: one segment
SegmentStep ==
  /\ mode = "segment" /\ pc = "loop" /\ i < MaxUnits
  /\ \E seg \in Units :
       LET text == Strip(seg.text) IN
       /\ Consume(seg)
       /\ passages' = IF text = <<>> THEN passages
                      ELSE merge_passage(passages,
                                         midpoint_speaker(speaker_segments, seg), text)
  /\ UNCHANGED << mode, pc, speaker_segments, lines, paragraph, last_end,
                  cur_speaker, cur_words >>

\* _diarize_segment_level: end of the segments, render
SegmentFinish ==
  /\ mode = "segment" /\ pc = "loop"
  /\ lines' = render_passages(passages)
  /\ pc' = "done"
  /\ UNCHANGED << mode, speaker_segments, i, cur, consumed, paragraph, last_end,
                  passages, cur_speaker, cur_words >>

Next ==
  \/ SimpleStep
  \/ SimpleFinish
  \/ WordStep
  \/ WordFinish
  \/ WordFallback
  \/ SegmentStep
  \/ SegmentFinish

Spec == Init /\ [][Next]_vars

InitSimple == Init /\ mode = "simple"

NextSimple ==
  \/ SimpleStep
  \/ SimpleFinish

\* _format_simple alone
SpecSimple == InitSimple /\ [][NextSimple]_vars

\* _find_speaker alone: every timeline, one word
InitWord == Init /\ mode = "word"

FirstWord == i = 0 /\ WordStep

SpecFindSpeaker == InitWord /\ [][FirstWord]_vars

\* The speaker search of _diarize_segment_level alone: every timeline, one
\* segment.  The start is the state WordFallback leaves when no word was
\* collected.
InitSegment ==
  /\ mode = "segment"
  /\ pc = "loop"
  /\ speaker_segments \in Timelines
  /\ i = 0
  /\ cur = NoUnit
  /\ consumed = <<>>
  /\ lines = << Heading, Blank >>
  /\ paragraph = <<>>
  /\ last_end = 0
  /\ passages = <<>>
  /\ cur_speaker = NoSpeaker
  /\ cur_words = <<>>

FirstSegment == i = 0 /\ SegmentStep

SpecMidpoint == InitSegment /\ [][FirstSegment]_vars

\* _render_passages alone: every passage list a caller can hand over, one
\* non-empty text per passage and no speaker twice in a row, with a third
\* raw speaker so that three labels are allocated.
RenderSpeakers == Speakers \cup {"C", Unknown}
PassageTexts == { Strip(t) : t \in RawTexts } \ { <<>> }
PassageLists ==
  { ps \in SeqsUpTo([speaker : RenderSpeakers, text : PassageTexts], MaxUnits) :
      \A k \in 1 .. Len(ps) - 1 : ps[k].speaker # ps[k + 1].speaker }

\* _diarize_segment_level at the end of its loop, one segment per passage
InitRender ==
  /\ mode = "segment"
  /\ pc = "loop"
  /\ speaker_segments = <<>>
  /\ passages \in PassageLists
  /\ i = Len(passages)
  /\ cur = NoUnit
  /\ consumed = [k \in 1 .. Len(passages) |-> passages[k].text]
  /\ lines = << Heading, Blank >>
  /\ paragraph = <<>>
  /\ last_end = 0
  /\ cur_speaker = NoSpeaker
  /\ cur_words = <<>>

SpecRender == InitRender /\ [][SegmentFinish]_vars

\* the two producers of the document: _format_simple and _render_passages
InitDocument == InitSimple \/ InitRender

NextDocument ==
  \/ SimpleStep
  \/ SimpleFinish
  \/ SegmentFinish

SpecDocument == InitDocument /\ [][NextDocument]_vars

\* ------------------------------------------------- reading the document back
IsBlock(line) == line # Blank /\ line # Heading
IsLabelled(line) == line # <<>> /\ line[1] = "**"
LabelEnd(line) == CHOOSE k \in 1 .. Len(line) : line[k] = ":** "
BlockLabel(line) == SubSeq(line, 2, LabelEnd(line) - 1)
BlockText(line) ==
  IF IsLabelled(line) THEN SubSeq(line, LabelEnd(line) + 1, Len(line)) ELSE line

RECURSIVE BlockTexts(_)
BlockTexts(doc) ==
  IF doc = <<>> THEN <<>>
  ELSE IF IsBlock(Head(doc)) THEN << BlockText(Head(doc)) >> \o BlockTexts(Tail(doc))
  ELSE BlockTexts(Tail(doc))

\* blocks are the space-joins of consecutive non-empty groups of tokens
RECURSIVE SplitsInto(_, _)
SplitsInto(blocks, tokens) ==
  IF blocks = <<>> THEN tokens = <<>>
  ELSE \E n \in 1 .. Len(tokens) :
         /\ Join(SubSeq(tokens, 1, n)) = Head(blocks)
         /\ SplitsInto(Tail(blocks), SubSeq(tokens, n + 1, Len(tokens)))

Diarized == mode \in {"word", "segment"}
CurUsed == i > 0 /\ Strip(cur.text) # <<>>
AllUnknown == \A k \in 1 .. Len(passages) : passages[k].speaker = Unknown

\* ------------------------------------------------------------------ claims

\* C1: in the passage list handed to _render_passages, by the word-level path
\* and by _diarize_segment_level alike, no two adjacent passages have the same
\* speaker.
C1_MergeComplete ==
  (Diarized /\ pc = "done") =>
    \A k \in 1 .. Len(passages) - 1 : passages[k].speaker # passages[k + 1].speaker

\* three words, two of them merged into one of two passages
C1_Witness ==
  /\ mode = "word" /\ pc = "done"
  /\ Len(Tokens(consumed)) = 3
  /\ Len(passages) = 2

\* C2: the block texts of the finished document, split at the inserted spaces,
\* are the trimmed non-empty unit texts in input order: nothing is dropped,
\* duplicated or reordered, in any of the three formatters.
C2_TextPreserved ==
  pc = "done" => SplitsInto(BlockTexts(lines), Tokens(consumed))

\* segment level: an empty segment between two merged ones
C2_Witness ==
  /\ mode = "segment" /\ pc = "done"
  /\ Len(consumed) = 3 /\ Len(Tokens(consumed)) = 2
  /\ Strip(consumed[2]) = <<>>
  /\ Len(passages) = 1

FirstAt(raw) == CHOOSE k \in 1 .. Len(passages) :
                  /\ passages[k].speaker = raw
                  /\ \A j \in 1 .. k - 1 : passages[j].speaker # raw
Rank(raw) == Cardinality({ passages[j].speaker : j \in 1 .. FirstAt(raw) } \ {Unknown})

\* C3: the N-th distinct raw speaker other than "Unknown", by first appearance,
\* is rendered "Speaker N" in every passage it has; an "Unknown" passage is
\* rendered "Unknown" and takes no number.
C3_LabelNumbering ==
  (Diarized /\ pc = "done") =>
    /\ Len(lines) = 2 + 2 * Len(passages)
    /\ \A k \in 1 .. Len(passages) :
         BlockLabel(lines[2 * k + 1]) =
           IF passages[k].speaker = Unknown THEN << "Unknown" >>
           ELSE << "Speaker ", ToString(Rank(passages[k].speaker)) >>

\* an Unknown passage first, then a speaker, then another: "Unknown",
\* "Speaker 1", "Speaker 2"
C3_Witness ==
  /\ Diarized /\ pc = "done"
  /\ Len(passages) = 3
  /\ passages[1].speaker = Unknown
  /\ passages[2].speaker # Unknown
  /\ passages[3].speaker \notin {Unknown, passages[2].speaker}
  /\ BlockLabel(lines[7]) = << "Speaker ", "2" >>

Overlap(k) == Max(0, Min(cur.end, speaker_segments[k].end)
                     - Max(cur.start, speaker_segments[k].start))
MaxOverlap == CHOOSE m \in { Overlap(k) : k \in DOMAIN speaker_segments } \cup {0} :
                \A k \in DOMAIN speaker_segments : Overlap(k) <= m
FirstMaxOverlap == CHOOSE k \in DOMAIN speaker_segments :
                     /\ Overlap(k) = MaxOverlap
                     /\ \A j \in 1 .. k - 1 : Overlap(j) # MaxOverlap

\* C4: a word is given the speaker of the turn of maximal overlap when that
\* overlap is positive, the first listed of several such turns, and "Unknown"
\* when no turn overlaps it.
C4_OverlapResolution ==
  (mode = "word" /\ CurUsed) =>
    cur_speaker = IF MaxOverlap > 0 THEN speaker_segments[FirstMaxOverlap].speaker
                  ELSE Unknown

\* two turns of different speakers tie on a positive overlap
C4_Witness ==
  /\ mode = "word" /\ CurUsed
  /\ Len(speaker_segments) = 2
  /\ Overlap(1) = Overlap(2) /\ Overlap(1) > 0
  /\ speaker_segments[1].speaker # speaker_segments[2].speaker

Mid2 == cur.start + cur.end
Contains(k) == 2 * speaker_segments[k].start <= Mid2 /\ Mid2 <= 2 * speaker_segments[k].end
Dist2(k) == Min(Abs(Mid2 - 2 * speaker_segments[k].start),
                Abs(Mid2 - 2 * speaker_segments[k].end))
FirstContaining == CHOOSE k \in DOMAIN speaker_segments :
                     Contains(k) /\ \A j \in 1 .. k - 1 : ~Contains(j)

\* C5: a segment is given the speaker of the first turn that contains its
\* midpoint, whatever precedes that turn; failing that, of a turn nearest to
\* the midpoint; so never "Unknown" when the timeline is not empty.
C5_MidpointResolution ==
  (mode = "segment" /\ CurUsed /\ speaker_segments # <<>>) =>
    LET spk == passages[Len(passages)].speaker IN
    /\ spk # Unknown
    /\ IF \E k \in DOMAIN speaker_segments : Contains(k)
       THEN spk = speaker_segments[FirstContaining].speaker
       ELSE \E k \in DOMAIN speaker_segments :
              /\ spk = speaker_segments[k].speaker
              /\ \A j \in DOMAIN speaker_segments : Dist2(k) <= Dist2(j)

\* a turn that misses the midpoint is listed before one of another speaker
\* that contains it
C5_Witness ==
  /\ mode = "segment" /\ CurUsed
  /\ Len(speaker_segments) = 2
  /\ ~Contains(1) /\ Contains(2)
  /\ speaker_segments[1].speaker # speaker_segments[2].speaker

SimpleStepped == mode = "simple" /\ i' = i + 1

C8_SentenceCap ==
  mode = "simple" =>
    \A n \in 1 .. Len(paragraph) - 1 : Terminals(Join(SubSeq(paragraph, 1, n))) < 5

\* C8, amended: _format_simple has no sentence cap; a non-empty segment whose
\* gap does not exceed 2.0 joins the open paragraph even when the buffer
\* already holds 5 or more sentence terminators.
C8_NoSentenceCap ==
  [][(/\ SimpleStepped
      /\ Strip(cur'.text) # <<>>
      /\ paragraph # <<>>
      /\ Terminals(Join(paragraph)) >= 5
      /\ cur'.start - last_end <= 2)
     => (lines' = lines /\ paragraph' = Append(paragraph, Strip(cur'.text)))]_vars

\* a third segment joined a buffer that held 6 terminators
C8_Witness ==
  /\ mode = "simple"
  /\ Len(paragraph) = 3
  /\ Terminals(Join(SubSeq(paragraph, 1, 2))) >= 5

\* C9: the finished document is the heading, a blank line, then per
\* paragraph or passage one block line with non-empty text and one blank
\* line; an empty transcript yields the heading alone.
C9_DocumentShape ==
  pc = "done" =>
    /\ Len(lines) >= 2 /\ Len(lines) % 2 = 0
    /\ lines[1] = Heading /\ lines[2] = Blank
    /\ \A k \in 1 .. (Len(lines) \div 2) - 1 :
         /\ IsBlock(lines[2 * k + 1])
         /\ BlockText(lines[2 * k + 1]) # <<>>
         /\ IsLabelled(lines[2 * k + 1]) <=> Diarized
         /\ lines[2 * k + 2] = Blank
    /\ Diarized => Len(lines) = 2 + 2 * Len(passages)
    /\ Tokens(consumed) = <<>> <=> lines = << Heading, Blank >>

\* two paragraphs and an empty segment
C9_Witness ==
  /\ mode = "simple" /\ pc = "done"
  /\ Len(consumed) = 3 /\ Len(Tokens(consumed)) = 2
  /\ Len(lines) = 6

\* C10, as stated: a unit with end < start stops the core with an error and
\* no document is produced.
C10_FailFast ==
  (i > 0 /\ cur.end < cur.start) => pc # "done"

\* C10, amended: a unit with end < start is used like any other and the
\* document is produced: _format_simple appends its text and measures the
\* next gap from its end, the word-level path finds no overlap and attributes
\* it to "Unknown", _diarize_segment_level puts its text in the last passage.
C10_InvalidUnitUsed ==
  (CurUsed /\ cur.end < cur.start) =>
    LET text == Strip(cur.text) IN
    /\ mode = "simple" =>
         /\ paragraph # <<>> /\ paragraph[Len(paragraph)] = text
         /\ last_end = cur.end
         /\ pc = "done" => lines[Len(lines) - 1] = Join(paragraph)
    /\ mode = "word" =>
         /\ cur_speaker = Unknown
         /\ cur_words # <<>> /\ cur_words[Len(cur_words)] = text
         /\ pc = "done" => passages[Len(passages)] =
                             [speaker |-> Unknown, text |-> Join(cur_words)]
    /\ mode = "segment" =>
         /\ passages # <<>>
         /\ LET last == passages[Len(passages)].text
            IN SubSeq(last, Len(last) - Len(text) + 1, Len(last)) = text

\* the last segment of a finished simple transcript ends before it starts
C10_Witness ==
  /\ mode = "simple" /\ pc = "done"
  /\ CurUsed /\ cur.end < cur.start

====
